---- MODULE Spec2Model ----
(***************************************************************************)
(* Model of the drone-image reconstruction scripts:                        *)
(*   scripts/prepare_metadata.py       telemetry reader and prior writer   *)
(*   scripts/run_colmap.py             COLMAP + OpenSplat sequencer        *)
(*   scripts/run_colmap_dronesplat.py  COLMAP + DroneSplat sequencer       *)
(* Numbers that Python holds as floats are kept as reduced fractions       *)
(* [n, d]; a text file is the sequence of its lines.                       *)
(***************************************************************************)
EXTENDS Integers, Sequences, FiniteSets, TLC

\* ------------------------------------------------------------------ bounds
\* Largest number of image files in the directory prepare_metadata.py reads.
MaxImages == 3
\* Largest number of image files in the directory a sequencer run reads.
MaxSeqImages == 2
\* Largest number of image files in a directory handed to the library calls.
MaxWriterImages == 2
\* Largest number of image files in a directory whose file names vary in case.
MaxListed == 2
\* Largest number of image files in the directory of a run checked for
\* termination.
MaxLiveImages == 1

\* ------------------------------------------------------------- fractions
RECURSIVE Gcd(_, _)
Gcd(a, b) == IF b = 0 THEN a ELSE Gcd(b, a % b)

Abs(x) == IF x < 0 THEN -x ELSE x

\* the float n/d, d # 0, in lowest terms with a positive denominator
Frac(n, d) ==
    LET g == Gcd(Abs(n), Abs(d))
        s == IF d < 0 THEN -1 ELSE 1
    IN  [n |-> s * (n \div g), d |-> s * (d \div g)]

FracInt(i) == [n |-> i, d |-> 1]

\* ----------------------------------------------------------- JSON values
\* A value of a sidecar field: absent, a JSON number a/b, a string "a/b",
\* a string holding the decimal number a/b, or a string that is no number.
Absent == [t |-> "absent", a |-> 0, b |-> 1]
Num(a, b) == [t |-> "num", a |-> a, b |-> b]
FracStr(a, b) == [t |-> "fracstr", a |-> a, b |-> b]
NumStr(a, b) == [t |-> "numstr", a |-> a, b |-> b]
BadStr == [t |-> "badstr", a |-> 0, b |-> 1]

\* dict.get(key, default)
Get(v, default) == IF v.t = "absent" THEN default ELSE v

\* The result of a Python expression: a value, or an exception raised.
Ok(v) == [raised |-> FALSE, v |-> v]
Raise == [raised |-> TRUE, v |-> FracInt(0)]

\* float(x): a number or a decimal string; "a/b" and other text raise ValueError
PyFloat(v) ==
    IF v.t \in {"num", "numstr"} THEN Ok(Frac(v.a, v.b)) ELSE Raise

\* int(x): truncates a number, parses an integer string, raises otherwise
PyInt(v) ==
    IF v.t = "num" THEN
        Ok(FracInt(IF v.a >= 0 THEN v.a \div v.b ELSE -((-v.a) \div v.b)))
    ELSE IF v.t = "numstr" /\ v.b = 1 THEN Ok(FracInt(v.a))
    ELSE Raise

\* The focal-length rule: a string with "/" is split and divided, anything
\* else goes through float().
ParseFocal(v) ==
    IF v.t = "fracstr" THEN
        IF v.b = 0 THEN Raise ELSE Ok(Frac(v.a, v.b))
    ELSE PyFloat(v)

\* ------------------------------------------------------ sidecar documents
\* One sidecar file: whether it exists, whether its text is valid JSON, and
\* the fields the scripts read.
NoSidecar ==
    [exists |-> FALSE, json |-> FALSE,
     PixelXDimension |-> Absent, PixelYDimension |-> Absent,
     FocalLength |-> Absent,
     OpticalCenterX |-> Absent, OpticalCenterY |-> Absent,
     CalibratedFocalLengthX |-> Absent, DewarpData |-> Absent,
     Latitude |-> Absent, Longitude |-> Absent, AbsoluteAltitude |-> Absent,
     Yaw |-> Absent, Pitch |-> Absent, Roll |-> Absent]

\* the document {}
DocEmpty == [NoSidecar EXCEPT !.exists = TRUE, !.json = TRUE]

\* a complete Skydio sidecar
DocFull ==
    [DocEmpty EXCEPT
        !.PixelXDimension = Num(4000, 1), !.PixelYDimension = Num(3000, 1),
        !.FocalLength = FracStr(3700, 1000),
        !.OpticalCenterX = Num(2001, 1), !.OpticalCenterY = Num(1501, 1),
        !.CalibratedFocalLengthX = Num(3000, 1),
        !.DewarpData = NumStr(1, 10),
        !.Latitude = Num(37, 1), !.Longitude = Num(-122, 1),
        !.AbsoluteAltitude = Num(50, 1),
        !.Yaw = Num(90, 1), !.Pitch = Num(-45, 1), !.Roll = Num(10, 1)]

\* a sidecar that carries a position only, with another focal length
DocPose ==
    [DocEmpty EXCEPT
        !.FocalLength = Num(4, 1),
        !.Latitude = Num(1, 1), !.Longitude = Num(2, 1),
        !.AbsoluteAltitude = Num(3, 1)]

\* a sidecar whose text is not JSON
DocBadJson == [DocFull EXCEPT !.json = FALSE]

\* a sidecar whose Latitude is text that is no number
DocBadPose == [DocFull EXCEPT !.Latitude = BadStr]

\* a sidecar whose FocalLength is text that is no number
DocBadFocal == [DocPose EXCEPT !.FocalLength = BadStr]

Docs == {DocEmpty, DocFull, DocPose, DocBadJson, DocBadPose, DocBadFocal}

\* ------------------------------------------------------- image directory
\* The directory as glob enumerates it: a sequence of image files, each with
\* its name and its same-stem sidecar (or NoSidecar). Names are distinct and
\* come in ascending or in descending order of name.
NameOrders == {"asc", "desc"}

NameAt(n, order, k) == IF order = "asc" THEN k ELSE n + 1 - k

DirsOf(max, orders) ==
    UNION { UNION { { [k \in 1..n |-> [name |-> NameAt(n, o, k), doc |-> ds[k]]]
                        : ds \in [1..n -> Docs \cup {NoSidecar}] }
                    : o \in orders }
            : n \in 0..max }

Dirs == DirsOf(MaxImages, NameOrders)

SeqDirs == DirsOf(MaxSeqImages, NameOrders)

\* the directories of the library calls, names ascending
WriterDirs == DirsOf(MaxWriterImages, {"asc"})

RECURSIVE SelectSeqIdx(_, _, _)
\* the indices k >= from of s with s[k].doc.exists, in order
SelectSeqIdx(s, from, acc) ==
    IF from > Len(s) THEN acc
    ELSE SelectSeqIdx(s, from + 1,
                      IF s[from].doc.exists THEN Append(acc, from) ELSE acc)

\* WithSidecar without the os.path.exists test
WithSidecarMutAll(dir) == [k \in 1..Len(dir) |-> k]

\* the images whose sidecar path exists, in enumeration order
WithSidecar(dir) == SelectSeqIdx(dir, 1, <<>>)

\* ------------------------------------------------------------ file names
\* The operating systems the scripts run on. Python's glob matches a pattern
\* through os.path.normcase, which folds case on Windows only; whether a path
\* that differs in case from a file's name exists is up to the file system.
Platforms == {"windows", "linux", "macos"}

GlobIgnoresCase(p) == p = "windows"

FsIgnoresCase(p) == p \in {"windows", "macos"}

ImageExts == {"JPG", "jpg"}

SidecarExts == {"JSON", "json"}

Upper(ext) ==
    CASE ext = "jpg" -> "JPG"
      [] ext = "json" -> "JSON"
      [] OTHER -> ext

\* whether glob's pattern "*.<patExt>" matches a file with extension ext
GlobMatch(ext, patExt, p) ==
    IF GlobIgnoresCase(p) THEN Upper(ext) = Upper(patExt) ELSE ext = patExt

\* os.path.exists(<stem> + ".JSON") for an image whose sidecar is named
\* <stem>.<jext>
PathExists(entry, p) ==
    /\ entry.doc.exists
    /\ IF FsIgnoresCase(p) THEN Upper(entry.jext) = "JSON"
       ELSE entry.jext = "JSON"

\* A directory as it is on disk: for each image file its stem, its extension,
\* its sidecar and the sidecar's extension.
ListingsOf(max) ==
    UNION { [1..n -> { [name |-> 0, ext |-> e, doc |-> d, jext |-> j] :
                          e \in ImageExts,
                          d \in {DocFull, DocPose}, j \in SidecarExts }
                      \cup { [name |-> 0, ext |-> e, doc |-> NoSidecar,
                              jext |-> "JSON"] : e \in ImageExts }]
            : n \in 0..max }

\* the stems are the positions
Listings ==
    { [k \in 1..Len(l) |-> [l[k] EXCEPT !.name = k]] : l \in ListingsOf(MaxListed) }

RECURSIVE GlobView(_, _, _, _)
\* Lines 12-14 and 49-51: the files glob("*.JP*G") yields from position
\* `from` on, each with the sidecar os.path.exists finds for it.
GlobView(listing, p, from, acc) ==
    IF from > Len(listing) THEN acc
    ELSE LET e == listing[from]
         IN  GlobView(listing, p, from + 1,
                      IF GlobMatch(e.ext, "JPG", p)
                      THEN Append(acc, [name |-> e.name,
                                        doc |-> IF PathExists(e, p) THEN e.doc
                                                ELSE NoSidecar])
                      ELSE acc)

\* the directory whose glob view is dir on every platform: every name in
\* upper case
UpperCaseListing(dir) ==
    [k \in 1..Len(dir) |->
        [name |-> dir[k].name, ext |-> "JPG", doc |-> dir[k].doc,
         jext |-> "JSON"]]

\* run_colmap_dronesplat.py 63-66: the first file glob('*.json') yields
pick_json(listing, p) ==
    LET js == { k \in 1..Len(listing) :
                  listing[k].doc.exists /\ GlobMatch(listing[k].jext, "json", p) }
    IN  IF js = {} THEN [raised |-> TRUE, doc |-> NoSidecar]
        ELSE [raised |-> FALSE,
              doc |-> listing[CHOOSE k \in js : \A i \in js : k <= i].doc]

\* ------------------------------------------------------------ text lines
\* One line of a text file: its kind, its text and the numbers formatted
\* into it (a float takes two places, numerator and denominator).
Line(kind, text, nums) == [kind |-> kind, text |-> text, nums |-> nums]

Comment(text) == Line("comment", text, <<>>)

BlankLine == Line("blank", "", <<>>)

\* f"1 SIMPLE_RADIAL {width} {height} {focal} {cx} {cy} {k1}"
CameraLine(width, height, focal, cx, cy, k1) ==
    Line("camera", "SIMPLE_RADIAL",
         <<1, width, height, focal.n, focal.d, cx.n, cx.d, cy.n, cy.d,
           k1.n, k1.d>>)

\* f"{idx+1} 1 0 0 0 {tx} {ty} {tz} 1 {image_name}"
PoseLine(id, tx, ty, tz, name) ==
    Line("pose", "",
         <<id, 1, 0, 0, 0, tx.n, tx.d, ty.n, ty.d, tz.n, tz.d, 1, name>>)

\* ------------------------------------------------------ extract_metadata
\* SampleImage that keeps the last sidecar instead of the first
SampleImageMutLast(dir) ==
    LET ws == WithSidecar(dir)
    IN  IF ws = <<>> THEN [raised |-> FALSE, found |-> FALSE, doc |-> NoSidecar]
        ELSE IF ~dir[ws[1]].doc.json
             THEN [raised |-> TRUE, found |-> FALSE, doc |-> NoSidecar]
             ELSE [raised |-> FALSE, found |-> dir[ws[Len(ws)]].doc.json,
                   doc |-> IF dir[ws[Len(ws)]].doc.json
                           THEN dir[ws[Len(ws)]].doc ELSE NoSidecar]

\* First pass: the JSON of the first image whose sidecar exists.
SampleImage(dir) ==
    LET ws == WithSidecar(dir)
    IN  IF ws = <<>> THEN [raised |-> FALSE, found |-> FALSE, doc |-> NoSidecar]
        ELSE IF ~dir[ws[1]].doc.json
             THEN [raised |-> TRUE, found |-> FALSE, doc |-> NoSidecar]
             ELSE [raised |-> FALSE, found |-> TRUE, doc |-> dir[ws[1]].doc]

\* `if sample_image:` is false for None and for the empty document
Truthy(sample) == sample.found /\ sample.doc # DocEmpty

\* float(dewarp_data.split(",")[0]): only a string has split
DewarpFirst(v) == IF v.t = "numstr" THEN Ok(Frac(v.a, v.b)) ELSE Raise

DefaultCameraLine ==
    CameraLine(4056, 3040, FracInt(3700),
               Frac(2022872267, 1000000), Frac(1512190903, 1000000),
               Frac(123224, 1000000))

\* The camera parameters read from the sample document.
CameraFromSample(doc) ==
    LET width == PyInt(Get(doc.PixelXDimension, Num(4056, 1)))
        height == PyInt(Get(doc.PixelYDimension, Num(3040, 1)))
        focal == ParseFocal(Get(doc.FocalLength, FracStr(3700, 1000)))
    IN  IF width.raised \/ height.raised \/ focal.raised THEN Raise
        ELSE LET cx == PyFloat(Get(doc.OpticalCenterX, Num(width.v.n, 2)))
                 cy == PyFloat(Get(doc.OpticalCenterY, Num(height.v.n, 2)))
                 k1 == DewarpFirst(Get(doc.DewarpData, NumStr(123224, 1000000)))
             IN  IF cx.raised \/ cy.raised \/ k1.raised THEN Raise
                 ELSE Ok(CameraLine(width.v.n, height.v.n, focal.v,
                                    cx.v, cy.v, k1.v))

\* Lines 19-47: the one camera line, from the sample or from the defaults.
CamerasText(sample) ==
    IF Truthy(sample) THEN CameraFromSample(sample.doc)
    ELSE Ok(DefaultCameraLine)

\* ImageRecord that does not keep the orientation
ImageRecordMutNoOrientation(entry, sampleDoc) ==
    IF ~entry.doc.json THEN Raise
    ELSE LET d == entry.doc
             lat == PyFloat(Get(d.Latitude, Num(0, 1)))
             lon == PyFloat(Get(d.Longitude, Num(0, 1)))
             alt == PyFloat(Get(d.AbsoluteAltitude, Num(0, 1)))
             focal == ParseFocal(Get(sampleDoc.FocalLength, FracStr(3700, 1000)))
         IN  IF lat.raised \/ lon.raised \/ alt.raised \/ focal.raised
             THEN Raise
             ELSE Ok([image_name |-> entry.name,
                      latitude |-> lat.v, longitude |-> lon.v,
                      altitude |-> alt.v,
                      yaw |-> FracInt(0), pitch |-> FracInt(0),
                      roll |-> FracInt(0),
                      focal_length |-> focal.v])

\* ImageRecord that reads the focal length from the image's own sidecar
ImageRecordMutOwnFocal(entry, sampleDoc) ==
    IF ~entry.doc.json THEN Raise
    ELSE LET d == entry.doc
             lat == PyFloat(Get(d.Latitude, Num(0, 1)))
             lon == PyFloat(Get(d.Longitude, Num(0, 1)))
             alt == PyFloat(Get(d.AbsoluteAltitude, Num(0, 1)))
             yaw == PyFloat(Get(d.Yaw, Num(0, 1)))
             pitch == PyFloat(Get(d.Pitch, Num(0, 1)))
             roll == PyFloat(Get(d.Roll, Num(0, 1)))
             focal == ParseFocal(Get(d.FocalLength, FracStr(3700, 1000)))
         IN  IF lat.raised \/ lon.raised \/ alt.raised \/ yaw.raised
                \/ pitch.raised \/ roll.raised \/ focal.raised
             THEN Raise
             ELSE Ok([image_name |-> entry.name,
                      latitude |-> lat.v, longitude |-> lon.v,
                      altitude |-> alt.v,
                      yaw |-> yaw.v, pitch |-> pitch.v, roll |-> roll.v,
                      focal_length |-> focal.v])

\* Lines 52-83: the record of one image with a sidecar; the focal length is
\* read from sample_image.
ImageRecord(entry, sampleDoc) ==
    IF ~entry.doc.json THEN Raise
    ELSE LET d == entry.doc
             lat == PyFloat(Get(d.Latitude, Num(0, 1)))
             lon == PyFloat(Get(d.Longitude, Num(0, 1)))
             alt == PyFloat(Get(d.AbsoluteAltitude, Num(0, 1)))
             yaw == PyFloat(Get(d.Yaw, Num(0, 1)))
             pitch == PyFloat(Get(d.Pitch, Num(0, 1)))
             roll == PyFloat(Get(d.Roll, Num(0, 1)))
             focal == ParseFocal(Get(sampleDoc.FocalLength, FracStr(3700, 1000)))
         IN  IF lat.raised \/ lon.raised \/ alt.raised \/ yaw.raised
                \/ pitch.raised \/ roll.raised \/ focal.raised
             THEN Raise
             ELSE Ok([image_name |-> entry.name,
                      latitude |-> lat.v, longitude |-> lon.v,
                      altitude |-> alt.v,
                      yaw |-> yaw.v, pitch |-> pitch.v, roll |-> roll.v,
                      focal_length |-> focal.v])

RECURSIVE ImageMetadataMutSkip(_, _, _, _)
\* ImageMetadata that drops a sidecar it cannot read and goes on
ImageMetadataMutSkip(dir, ws, k, acc) ==
    IF k > Len(ws) THEN [raised |-> FALSE, records |-> acc]
    ELSE LET r == ImageRecord(dir[ws[k]], SampleImage(dir).doc)
         IN  ImageMetadataMutSkip(dir, ws, k + 1,
                                  IF r.raised THEN acc ELSE Append(acc, r.v))

RECURSIVE ImageMetadata(_, _, _, _)
\* Second pass (lines 49-83) from position k of the images with a sidecar:
\* the records appended so far, or the exception that ends the loop.
ImageMetadata(dir, ws, k, acc) ==
    IF k > Len(ws) THEN [raised |-> FALSE, records |-> acc]
    ELSE LET r == ImageRecord(dir[ws[k]], SampleImage(dir).doc)
         IN  IF r.raised THEN [raised |-> TRUE, records |-> <<>>]
             ELSE ImageMetadata(dir, ws, k + 1, Append(acc, r.v))

NoCameras == [set |-> FALSE, line |-> BlankLine]

\* extract_metadata(images_path): whether it raised, the list it returns and
\* the module-level cameras_text it leaves behind (cams is the value before
\* the call).
extract_metadata(dir, cams) ==
    LET sample == SampleImage(dir)
    IN  IF sample.raised
        THEN [raised |-> TRUE, image_metadata |-> <<>>, cameras_text |-> cams]
        ELSE LET cam == CamerasText(sample)
             IN  IF cam.raised
                 THEN [raised |-> TRUE, image_metadata |-> <<>>,
                       cameras_text |-> cams]
                 ELSE LET m == ImageMetadata(dir, WithSidecar(dir), 1, <<>>)
                      IN  [raised |-> m.raised, image_metadata |-> m.records,
                           cameras_text |-> [set |-> TRUE, line |-> cam.v]]

\* ------------------------------------------------------------------ files
\* A text file: whether it exists and its lines.
NoFile == [exists |-> FALSE, lines |-> <<>>]

\* OpenWrite in append mode
OpenWriteMutAppend(old, lines) == [exists |-> TRUE, lines |-> old.lines \o lines]

\* open(path, 'w') followed by the writes: the old content is dropped
OpenWrite(old, lines) == [exists |-> TRUE, lines |-> lines]

\* The directory the prior writer fills: cameras.txt, images.txt, colmap.ini.
NoPrior ==
    [exists |-> FALSE, cameras |-> NoFile, images |-> NoFile, ini |-> NoFile]

\* FracMul without the scale
FracMulMutIdentity(q, k) == q

\* q * k for a float q and an integer k
FracMul(q, k) == Frac(q.n * k, q.d)

CamerasHeader ==
    <<Comment("# Camera list with one line of data per camera:"),
      Comment("#   CAMERA_ID, MODEL, WIDTH, HEIGHT, PARAMS[]"),
      Comment("# Number of cameras: 1")>>

ImagesHeader ==
    <<Comment("# Image list with two lines of data per image:"),
      Comment("#   IMAGE_ID, QW, QX, QY, QZ, TX, TY, TZ, CAMERA_ID, NAME"),
      Comment("#   POINTS2D[] as (X, Y, POINT3D_ID)")>>

RECURSIVE PoseLinesMutZeroBased(_, _)
\* PoseLines that writes enumerate's 0-based idx as the IMAGE_ID
PoseLinesMutZeroBased(metadata, idx) ==
    IF idx >= Len(metadata) THEN <<>>
    ELSE LET data == metadata[idx + 1]
         IN  <<PoseLine(idx, [n |-> data.longitude.n * 111000,
                              d |-> data.longitude.d],
                        [n |-> data.latitude.n * 111000, d |-> data.latitude.d],
                        data.altitude, data.image_name), BlankLine>>
             \o PoseLinesMutZeroBased(metadata, idx + 1)

RECURSIVE PoseLines(_, _)
\* Lines 104-118: from 0-based position idx on, a pose line and a blank line
\* for each record.
PoseLines(metadata, idx) ==
    IF idx >= Len(metadata) THEN <<>>
    ELSE LET data == metadata[idx + 1]
             tx == FracMul(data.longitude, 111000)
             ty == FracMul(data.latitude, 111000)
             tz == data.altitude
         IN  <<PoseLine(idx + 1, tx, ty, tz, data.image_name), BlankLine>>
             \o PoseLines(metadata, idx + 1)

\* write_colmap_format(metadata, output_dir) on the directory `dir`, with the
\* module-level cameras_text `cams`: a NameError when no extract_metadata set
\* it, after the comment lines of cameras.txt went out.
write_colmap_format(metadata, dir, cams) ==
    IF ~cams.set
    THEN [raised |-> TRUE,
          dir |-> [dir EXCEPT !.exists = TRUE,
                              !.cameras = OpenWrite(@, CamerasHeader)]]
    ELSE [raised |-> FALSE,
          dir |-> [dir EXCEPT
                     !.exists = TRUE,
                     !.cameras = OpenWrite(@, Append(CamerasHeader, cams.line)),
                     !.images = OpenWrite(@, ImagesHeader
                                              \o PoseLines(metadata, 0))]]

IniLine(text) == Line("ini", text, <<>>)

\* the configuration text of write_colmap_ini
ColmapIni(image_path) ==
    <<IniLine(""), IniLine("[General]"), IniLine("database_path=database.db"),
      Line("ini_image_path", image_path, <<>>),
      IniLine("[Mapper]"), IniLine("init_min_tri_angle=4"),
      IniLine("multiple_models=0"), IniLine("extract_colors=1"),
      IniLine("ba_refine_focal_length=1"), IniLine("ba_refine_extra_params=1"),
      IniLine("min_focal_length_ratio=0.1"),
      IniLine("max_focal_length_ratio=10"), IniLine("max_extra_param=1")>>

\* write_colmap_ini(output_dir, image_path): the directory is not created
\* here, so open() raises when it is missing.
write_colmap_ini(dir, image_path) ==
    IF ~dir.exists THEN [raised |-> TRUE, dir |-> dir]
    ELSE [raised |-> FALSE,
          dir |-> [dir EXCEPT !.ini = OpenWrite(@, ColmapIni(image_path))]]

\* The caller's block (prepare_metadata.py 148-155, run_colmap.py 32-37):
\* nothing is written for an empty list.
WritePrior(metadata, dir, cams, image_path) ==
    IF metadata = <<>> THEN dir
    ELSE write_colmap_ini(write_colmap_format(metadata, dir, cams).dir,
                          image_path).dir

PriorFiles == {"cameras.txt", "images.txt", "colmap.ini"}

\* ------------------------------------------------------ external commands
\* A command line: the executable, its subcommand or script, its flags
\* (those with a fixed value carry it) and the camera parameters passed.
Cmd(exe, sub, flags, cam) ==
    [exe |-> exe, sub |-> sub, flags |-> flags, cam |-> cam]

NoCmd == Cmd("", "", {}, <<>>)

\* run_colmap.py 49-63
feature_cmd(use_gpu) ==
    Cmd("colmap", "feature_extractor",
        {"--database_path", "--image_path",
         "--ImageReader.single_camera=1",
         "--ImageReader.camera_model=SIMPLE_RADIAL",
         "--SiftExtraction.max_image_size=3000",
         "--SiftExtraction.edge_threshold=10",
         "--SiftExtraction.peak_threshold=0.01",
         "--SiftExtraction.max_num_features=8000",
         IF use_gpu THEN "--SiftExtraction.use_gpu=1"
                    ELSE "--SiftExtraction.use_gpu=0"},
        <<>>)

\* run_colmap.py 67-74
match_cmd(use_gpu) ==
    Cmd("colmap", "exhaustive_matcher",
        {"--database_path", "--SiftMatching.guided_matching=1",
         "--SiftMatching.max_num_matches=32000"}
        \cup (IF use_gpu THEN {"--SiftMatching.use_gpu=1"} ELSE {}),
        <<>>)

MapperBaseFlags == {"--database_path", "--image_path", "--output_path"}

MapperPriorFlags ==
    {"--Mapper.init_min_tri_angle=4", "--Mapper.multiple_models=0",
     "--Mapper.extract_colors=1", "--Mapper.ba_refine_focal_length=1",
     "--Mapper.ba_refine_extra_params=1", "--Mapper.init_existing_model=1",
     "--input_path=sparse_init"}

\* map_cmd that looks at --use_metadata only
map_cmdMutFlagOnly(use_metadata, sparse_init_exists) ==
    Cmd("colmap", "mapper",
        MapperBaseFlags \cup (IF use_metadata THEN MapperPriorFlags ELSE {}),
        <<>>)

\* run_colmap.py 82-99: the prior flags are added when --use_metadata is given
\* and <output>/sparse_init exists
map_cmd(use_metadata, sparse_init_exists) ==
    Cmd("colmap", "mapper",
        MapperBaseFlags
        \cup (IF use_metadata /\ sparse_init_exists THEN MapperPriorFlags
              ELSE {}),
        <<>>)

\* run_colmap.py 118-122
opensplat_cmd == Cmd("opensplat", "", {"-n=4000"}, <<>>)

\* run_colmap_dronesplat.py 108-120
ds_feature_cmd(cam_params) ==
    Cmd("colmap", "feature_extractor",
        {"--database_path", "--image_path",
         "--ImageReader.camera_model=SIMPLE_RADIAL",
         "--ImageReader.single_camera=1", "--ImageReader.camera_params",
         "--SiftExtraction.domain_size_pooling=1",
         "--SiftExtraction.estimate_affine_shape=1",
         "--SiftExtraction.max_image_size=3200",
         "--SiftExtraction.use_gpu=1",
         "--ImageReader.default_focal_length_factor"},
        cam_params)

\* run_colmap_dronesplat.py 122-128
ds_match_cmd ==
    Cmd("colmap", "spatial_matcher",
        {"--database_path", "--SpatialMatching.max_num_neighbors=40",
         "--SpatialMatching.max_distance=12.0", "--SiftMatching.use_gpu=1"},
        <<>>)

\* run_colmap_dronesplat.py 131-138
ds_map_cmd ==
    Cmd("colmap", "mapper",
        MapperBaseFlags \cup {"--Mapper.ba_refine_principal_point=0",
                              "--Mapper.tri_ignore_two_view_tracks=1"},
        <<>>)

\* run_colmap_dronesplat.py 154
ds_seg_cmd == Cmd("python", "seg_all_instances.py", {"--image_dir"}, <<>>)

\* run_colmap_dronesplat.py 160-165
ds_train_cmd ==
    Cmd("python", "train.py",
        {"-s", "-m", "--scene=myscene", "--iter=7000", "--use_masks"}, <<>>)

\* run_colmap_dronesplat.py 169-173
ds_render_cmd ==
    Cmd("python", "render.py", {"-s", "-m", "--iter=7000", "--export_ply"},
        <<>>)

\* The pipeline stage a command line belongs to.
StageOf(cmd) ==
    CASE cmd.sub = "feature_extractor" -> "extraction"
      [] cmd.sub \in {"exhaustive_matcher", "spatial_matcher"} -> "matching"
      [] cmd.sub = "mapper" -> "mapping"
      [] cmd.exe = "opensplat" \/ cmd.sub = "train.py" -> "training"
      [] cmd.sub = "render.py" -> "export"
      [] cmd.sub = "seg_all_instances.py" -> "masks"
      [] OTHER -> "none"

\* ------------------------------------------- run_colmap_dronesplat helpers
\* pick_json, pick_sample and intrinsics (lines 63-81, 102-104): the camera
\* parameters "fx,cx,cy,0.0" of the first sidecar; every missing file or key
\* and every float() failure raises.
ds_intrinsics(dir) ==
    LET ws == WithSidecar(dir)
    IN  IF ws = <<>> THEN [raised |-> TRUE, cam |-> <<>>]
        ELSE LET meta == dir[ws[1]].doc
                 fx == PyFloat(meta.CalibratedFocalLengthX)
                 cx == PyFloat(meta.OpticalCenterX)
                 cy == PyFloat(meta.OpticalCenterY)
             IN  IF ~meta.json \/ fx.raised \/ cx.raised \/ cy.raised
                 THEN [raised |-> TRUE, cam |-> <<>>]
                 ELSE [raised |-> FALSE,
                       cam |-> <<fx.v.n, fx.v.d, cx.v.n, cx.v.d,
                                 cy.v.n, cy.v.d, 0, 1>>]

\* ------------------------------------------------------------------ state
VARIABLES
    prog,          \* the script that runs
    args,          \* its command line: use_metadata, use_gpu, argv_ok, images
    pc,            \* the statement the script is at
    cont,          \* while a process runs: the statement after it
    caught,        \* while a process runs: whether its failure is caught
    imgDir,        \* the image directory, as glob and exists show it
    listing,       \* the image directory, as named on disk
    platform,      \* the operating system
    cameras_text,  \* prepare_metadata's module-level cameras_text
    metadata,      \* the list extract_metadata returned
    fs,            \* the output directory
    written,       \* the files the script wrote in this run
    env,           \* which tools the existence checks found
    calls,         \* the external processes started, with their exit status
    exit,          \* the exit status of the script and its last message
    stdout,        \* what the script printed
    lastWrite      \* library calls: the arguments of the last writer call

vars ==
    <<prog, args, pc, cont, caught, imgDir, listing, platform, cameras_text,
      metadata, fs, written, env, calls, exit, stdout, lastWrite>>

Programs == {"run_colmap", "dronesplat", "prepare_metadata"}

ExitCodes == {0, 1}

ImagePaths == {"imgsA", "imgsB"}

Running == [code |-> -1, msg |-> "", cmd |-> NoCmd]

NoWrite ==
    [called |-> FALSE, ok |-> FALSE, metadata |-> <<>>, image_path |-> "",
     cameras_text |-> NoCameras, repeat |-> FALSE]

\* The directory an earlier run read, and the files that run left behind.
PreviousRunDir ==
    <<[name |-> 1, doc |-> DocFull], [name |-> 2, doc |-> DocPose]>>

OldPrior ==
    LET r == extract_metadata(PreviousRunDir, NoCameras)
    IN  WritePrior(r.image_metadata, NoPrior, r.cameras_text, "imgsA")

ArgsOf(p) ==
    CASE p = "run_colmap" ->
            [use_metadata : BOOLEAN, use_gpu : BOOLEAN, argv_ok : {TRUE},
             images : {"imgsA"}]
      [] p = "dronesplat" ->
            [use_metadata : {FALSE}, use_gpu : {TRUE}, argv_ok : BOOLEAN,
             images : {"imgsA"}]
      [] OTHER ->
            [use_metadata : {FALSE}, use_gpu : {FALSE}, argv_ok : {TRUE},
             images : {"imgsA"}]

\* The output directory before the run: empty, or holding what earlier runs
\* left (the prior files, the copied images, the copied sparse model); the
\* sparse directory is the one the run makes for the mapper.
FsOf(p) ==
    [prior : {NoPrior, OldPrior},
     images : IF p = "prepare_metadata" THEN {"absent"} ELSE {"absent", "old"},
     scene_colmap : IF p = "dronesplat" THEN {"absent", "old"} ELSE {"absent"},
     sparse : {FALSE},
     viewer : {FALSE}]

StartOf(p) ==
    CASE p = "run_colmap" -> "rc_metadata"
      [] p = "dronesplat" -> "ds_args"
      [] OTHER -> "pm_main"

\* the state before the first statement of a script, its image directory
\* drawn from pmDirs for prepare_metadata.py and from seqDirs for a sequencer
InitOver(pmDirs, seqDirs) ==
    /\ prog \in Programs
    /\ args \in ArgsOf(prog)
    /\ pc = StartOf(prog)
    /\ cont = ""
    /\ caught = FALSE
    /\ imgDir \in (IF prog = "prepare_metadata" THEN pmDirs ELSE seqDirs)
    /\ listing = UpperCaseListing(imgDir)
    /\ platform = "windows"
    /\ cameras_text = NoCameras
    /\ metadata = <<>>
    /\ fs \in FsOf(prog)
    /\ written = {}
    /\ env = [colmap |-> "unknown", trainer |-> "unknown", seg |-> "unknown"]
    /\ calls = <<>>
    /\ exit = Running
    /\ stdout = <<>>
    /\ lastWrite = NoWrite

Init == InitOver(Dirs, SeqDirs)

\* ---------------------------------------------------------------- helpers
\* Die whose message does not carry the command line
DieMutNoCmd(msg, cmd) ==
    /\ pc' = "aborted"
    /\ exit' = [code |-> 1, msg |-> msg, cmd |-> NoCmd]

\* the script ends with a message and a non-zero status
Die(msg, cmd) ==
    /\ pc' = "aborted"
    /\ exit' = [code |-> 1, msg |-> msg, cmd |-> cmd]

\* the script returns from main
Finish ==
    /\ pc' = "done"
    /\ exit' = [code |-> 0, msg |-> "", cmd |-> NoCmd]

\* RunCmd with a process that is started and not waited for
RunCmdMutNoWait(cmd, next, catch) ==
    /\ pc' = next
    /\ cont' = ""
    /\ caught' = FALSE
    /\ calls' = Append(calls, [cmd |-> cmd, exited |-> FALSE, rc |-> 0])
    /\ stdout' = Append(stdout, "Running")
    /\ UNCHANGED exit

\* run_cmd / run up to the start of the process: print the command line,
\* start it and block until it exits
RunCmd(cmd, next, catch) ==
    /\ pc' = "wait"
    /\ cont' = next
    /\ caught' = catch
    /\ calls' = Append(calls, [cmd |-> cmd, exited |-> FALSE, rc |-> 0])
    /\ stdout' = Append(stdout, "Running")
    /\ UNCHANGED exit

\* ProcExit with the exit status never looked at
ProcExitMutIgnore ==
    /\ pc = "wait"
    /\ \E rc \in ExitCodes :
        calls' = [calls EXCEPT ![Len(calls)] =
                     [@ EXCEPT !.exited = TRUE, !.rc = rc]]
    /\ pc' = cont
    /\ cont' = ""
    /\ caught' = FALSE
    /\ UNCHANGED <<prog, args, listing, platform, imgDir, cameras_text,
                   metadata, fs, written, env, exit, stdout, lastWrite>>

\* ProcExit that clears the output directory when a stage fails
ProcExitMutRollback ==
    /\ pc = "wait"
    /\ \E rc \in ExitCodes :
        /\ calls' = [calls EXCEPT ![Len(calls)] =
                        [@ EXCEPT !.exited = TRUE, !.rc = rc]]
        /\ IF rc = 0
           THEN /\ pc' = cont
                /\ UNCHANGED <<exit, stdout, fs, written>>
           ELSE IF caught
           THEN /\ pc' = cont
                /\ stdout' = Append(stdout, "seg_all_instances.py failed")
                /\ UNCHANGED <<exit, fs, written>>
           ELSE /\ Die(IF prog = "run_colmap" THEN "Command failed with code"
                       ELSE "CalledProcessError",
                       calls[Len(calls)].cmd)
                /\ fs' = [fs EXCEPT !.prior = NoPrior, !.images = "absent",
                                    !.sparse = FALSE]
                /\ written' = {}
                /\ UNCHANGED stdout
    /\ cont' = ""
    /\ caught' = FALSE
    /\ UNCHANGED <<prog, args, listing, platform, imgDir, cameras_text,
                   metadata, env, lastWrite>>

\* ProcExit that gives up on a process that has not exited
ProcExitMutTimeout ==
    /\ pc = "wait"
    /\ Die("timeout", calls[Len(calls)].cmd)
    /\ cont' = ""
    /\ caught' = FALSE
    /\ UNCHANGED <<prog, args, listing, platform, imgDir, cameras_text,
                   metadata, fs, written, env, calls, stdout, lastWrite>>

\* The process started last exits with status rc: run_cmd raises SystemExit
\* on a non-zero status (run_colmap.py 17-18), check_call raises
\* CalledProcessError (run_colmap_dronesplat.py 85), which only the mask
\* step catches (155-156).
ProcExit ==
    /\ pc = "wait"
    /\ \E rc \in ExitCodes :
        /\ calls' = [calls EXCEPT ![Len(calls)] =
                        [@ EXCEPT !.exited = TRUE, !.rc = rc]]
        /\ IF rc = 0
           THEN /\ pc' = cont
                /\ UNCHANGED <<exit, stdout>>
           ELSE IF caught
           THEN /\ pc' = cont
                /\ stdout' = Append(stdout, "seg_all_instances.py failed")
                /\ UNCHANGED exit
           ELSE /\ Die(IF prog = "run_colmap" THEN "Command failed with code"
                       ELSE "CalledProcessError",
                       calls[Len(calls)].cmd)
                /\ UNCHANGED stdout
    /\ cont' = ""
    /\ caught' = FALSE
    /\ UNCHANGED <<prog, args, listing, platform, imgDir, cameras_text,
                   metadata, fs, written, env, lastWrite>>

\* ------------------------------------------------------------- run_colmap
\* Lines 28-37: with --use_metadata, read the telemetry and, for a non-empty
\* list, write the prior files into <output>/sparse_init.
RC_Metadata ==
    /\ pc = "rc_metadata"
    /\ IF ~args.use_metadata
       THEN /\ pc' = "rc_find_colmap"
            /\ UNCHANGED <<cameras_text, metadata, fs, written, exit, stdout>>
       ELSE \E r \in {extract_metadata(imgDir, cameras_text)} :
                /\ cameras_text' = r.cameras_text
                /\ IF r.raised
                   THEN /\ Die("Traceback", NoCmd)
                        /\ stdout' = Append(stdout, "Extracting metadata")
                        /\ UNCHANGED <<metadata, fs, written>>
                   ELSE /\ metadata' = r.image_metadata
                        /\ fs' = [fs EXCEPT
                                    !.prior = WritePrior(r.image_metadata, @,
                                                         r.cameras_text,
                                                         args.images)]
                        /\ written' = IF r.image_metadata = <<>> THEN written
                                      ELSE written \cup PriorFiles
                        /\ stdout' = IF r.image_metadata = <<>>
                                     THEN Append(stdout, "Extracting metadata")
                                     ELSE stdout \o <<"Extracting metadata",
                                                      "Initialized reconstruction">>
                        /\ pc' = "rc_find_colmap"
                        /\ UNCHANGED exit
    /\ UNCHANGED <<prog, args, listing, platform, cont, caught, imgDir, env,
                   calls, lastWrite>>

\* Lines 39-46: create the output directory, then look for COLMAP.
RC_FindColmap ==
    /\ pc = "rc_find_colmap"
    /\ \E found \in BOOLEAN :
        /\ env' = [env EXCEPT !.colmap = IF found THEN "present" ELSE "missing"]
        /\ IF found
           THEN pc' = "rc_feature" /\ UNCHANGED exit
           ELSE Die("Could not find COLMAP executable", NoCmd)
    /\ UNCHANGED <<prog, args, listing, platform, cont, caught, imgDir,
                   cameras_text, metadata, fs, written, calls, stdout,
                   lastWrite>>

\* Lines 48-64
RC_Feature ==
    /\ pc = "rc_feature"
    /\ RunCmd(feature_cmd(args.use_gpu), "rc_match", FALSE)
    /\ UNCHANGED <<prog, args, listing, platform, imgDir, cameras_text,
                   metadata, fs, written, env, lastWrite>>

\* Lines 66-75
RC_Match ==
    /\ pc = "rc_match"
    /\ RunCmd(match_cmd(args.use_gpu), "rc_mapper", FALSE)
    /\ UNCHANGED <<prog, args, listing, platform, imgDir, cameras_text,
                   metadata, fs, written, env, lastWrite>>

\* Lines 77-101: the sparse directory is made, then the mapper is started.
RC_Mapper ==
    /\ pc = "rc_mapper"
    /\ fs' = [fs EXCEPT !.sparse = TRUE]
    /\ RunCmd(map_cmd(args.use_metadata, fs.prior.exists), "rc_copy", FALSE)
    /\ UNCHANGED <<prog, args, listing, platform, imgDir, cameras_text,
                   metadata, written, env, lastWrite>>

\* CopyImages that replaces an existing destination
CopyImagesMutOverwrite(dest) == "copied"

\* shutil.copytree into a destination that does not exist yet
CopyImages(dest) == IF dest = "absent" THEN "copied" ELSE dest

\* Lines 103-111
RC_ImageCopy ==
    /\ pc = "rc_copy"
    /\ fs' = [fs EXCEPT !.images = CopyImages(@)]
    /\ stdout' = stdout \o <<IF fs.images = "absent" THEN "Copied images"
                             ELSE "Images folder already exists",
                             "COLMAP reconstruction completed">>
    /\ pc' = "rc_opensplat"
    /\ UNCHANGED <<prog, args, listing, platform, cont, caught, imgDir,
                   cameras_text, metadata, written, env, calls, exit,
                   lastWrite>>

\* RC_OpenSplat with a missing OpenSplat treated like a missing COLMAP
RC_OpenSplatMutFatal ==
    /\ pc = "rc_opensplat"
    /\ \E found \in BOOLEAN :
        /\ env' = [env EXCEPT !.trainer = IF found THEN "present" ELSE "missing"]
        /\ IF found
           THEN /\ pc' = "wait"
                /\ cont' = "rc_finish"
                /\ caught' = FALSE
                /\ calls' = Append(calls, [cmd |-> opensplat_cmd,
                                           exited |-> FALSE, rc |-> 0])
                /\ stdout' = stdout \o <<"OpenSplat found", "Running">>
                /\ UNCHANGED exit
           ELSE /\ Die("OpenSplat not found", NoCmd)
                /\ UNCHANGED <<cont, caught, calls, stdout>>
    /\ UNCHANGED <<prog, args, listing, platform, imgDir, cameras_text,
                   metadata, fs, written, lastWrite>>

\* Lines 113-127: OpenSplat runs when its executable exists; otherwise two
\* lines are printed and main returns.
RC_OpenSplat ==
    /\ pc = "rc_opensplat"
    /\ \E found \in BOOLEAN :
        /\ env' = [env EXCEPT !.trainer = IF found THEN "present" ELSE "missing"]
        /\ IF found
           THEN /\ pc' = "wait"
                /\ cont' = "rc_finish"
                /\ caught' = FALSE
                /\ calls' = Append(calls, [cmd |-> opensplat_cmd,
                                           exited |-> FALSE, rc |-> 0])
                /\ stdout' = stdout \o <<"OpenSplat found", "Running">>
                /\ UNCHANGED exit
           ELSE /\ Finish
                /\ stdout' = Append(stdout, "OpenSplat not found")
                /\ UNCHANGED <<cont, caught, calls>>
    /\ UNCHANGED <<prog, args, listing, platform, imgDir, cameras_text,
                   metadata, fs, written, lastWrite>>

\* Line 124 and the return from main
RC_Finish ==
    /\ pc = "rc_finish"
    /\ Finish
    /\ stdout' = Append(stdout, "OpenSplat completed")
    /\ UNCHANGED <<prog, args, listing, platform, cont, caught, imgDir,
                   cameras_text, metadata, fs, written, env, calls, lastWrite>>

\* ------------------------------------------------- prepare_metadata main
\* Lines 148-155
PM_Main ==
    /\ pc = "pm_main"
    /\ \E r \in {extract_metadata(imgDir, cameras_text)} :
           /\ cameras_text' = r.cameras_text
           /\ IF r.raised
              THEN /\ Die("Traceback", NoCmd)
                   /\ UNCHANGED <<metadata, fs, written, stdout>>
              ELSE /\ metadata' = r.image_metadata
                   /\ fs' = [fs EXCEPT
                               !.prior = WritePrior(r.image_metadata, @,
                                                    r.cameras_text,
                                                    args.images)]
                   /\ written' = IF r.image_metadata = <<>> THEN written
                                 ELSE written \cup PriorFiles
                   /\ stdout' = IF r.image_metadata = <<>>
                                THEN Append(stdout, "No metadata found!")
                                ELSE stdout \o <<"Successfully processed metadata",
                                                 "COLMAP format files written">>
                   /\ Finish
    /\ UNCHANGED <<prog, args, listing, platform, cont, caught, imgDir, env,
                   calls, lastWrite>>

\* -------------------------------------------------- run_colmap_dronesplat
\* Lines 90-95: the usage check, then the output directory is created.
DS_Args ==
    /\ pc = "ds_args"
    /\ IF args.argv_ok THEN pc' = "ds_find_tools" /\ UNCHANGED exit
       ELSE Die("Usage", NoCmd)
    /\ UNCHANGED <<prog, args, listing, platform, cont, caught, imgDir,
                   cameras_text, metadata, fs, written, env, calls, stdout,
                   lastWrite>>

\* Lines 97-100: COLMAP and DroneSplat's train.py must both exist.
DS_FindTools ==
    /\ pc = "ds_find_tools"
    /\ \E colmap \in BOOLEAN, train \in BOOLEAN :
        IF ~colmap
        THEN /\ env' = [env EXCEPT !.colmap = "missing"]
             /\ Die("COLMAP executable path invalid", NoCmd)
        ELSE /\ env' = [env EXCEPT
                          !.colmap = "present",
                          !.trainer = IF train THEN "present" ELSE "missing"]
             /\ IF train THEN pc' = "ds_meta" /\ UNCHANGED exit
                ELSE Die("DroneSplat repo not found", NoCmd)
    /\ UNCHANGED <<prog, args, listing, platform, cont, caught, imgDir,
                   cameras_text, metadata, fs, written, calls, stdout,
                   lastWrite>>

\* Lines 102-120: read the intrinsics, then start the feature extractor.
DS_Feature ==
    /\ pc = "ds_meta"
    /\ \E r \in {ds_intrinsics(imgDir)} :
           IF r.raised
           THEN /\ Die("Traceback", NoCmd)
                /\ UNCHANGED <<cont, caught, calls, stdout>>
           ELSE RunCmd(ds_feature_cmd(r.cam), "ds_match", FALSE)
    /\ UNCHANGED <<prog, args, listing, platform, imgDir, cameras_text,
                   metadata, fs, written, env, lastWrite>>

\* Lines 122-128
DS_Match ==
    /\ pc = "ds_match"
    /\ RunCmd(ds_match_cmd, "ds_mapper", FALSE)
    /\ UNCHANGED <<prog, args, listing, platform, imgDir, cameras_text,
                   metadata, fs, written, env, lastWrite>>

\* Lines 130-138: the sparse directory is made, then the mapper is started.
DS_Mapper ==
    /\ pc = "ds_mapper"
    /\ fs' = [fs EXCEPT !.sparse = TRUE]
    /\ RunCmd(ds_map_cmd, "ds_scene", FALSE)
    /\ UNCHANGED <<prog, args, listing, platform, imgDir, cameras_text,
                   metadata, written, env, lastWrite>>

\* Lines 140-148: the images and the sparse model are copied into the scene
\* directory unless their destinations exist.
DS_Scene ==
    /\ pc = "ds_scene"
    /\ fs' = [fs EXCEPT !.images = CopyImages(@),
                        !.scene_colmap = CopyImages(@)]
    /\ pc' = "ds_seg"
    /\ UNCHANGED <<prog, args, listing, platform, cont, caught, imgDir,
                   cameras_text, metadata, written, env, calls, exit, stdout,
                   lastWrite>>

\* DS_Seg without the try/except around the mask script
DS_SegMutUncaught ==
    /\ pc = "ds_seg"
    /\ \E found \in BOOLEAN :
        /\ env' = [env EXCEPT !.seg = IF found THEN "present" ELSE "missing"]
        /\ IF found THEN RunCmd(ds_seg_cmd, "ds_train", FALSE)
           ELSE /\ pc' = "ds_train"
                /\ UNCHANGED <<cont, caught, calls, exit, stdout>>
    /\ UNCHANGED <<prog, args, listing, platform, imgDir, cameras_text,
                   metadata, fs, written, lastWrite>>

\* Lines 150-156: the mask script runs when it exists, its failure is caught.
DS_Seg ==
    /\ pc = "ds_seg"
    /\ \E found \in BOOLEAN :
        /\ env' = [env EXCEPT !.seg = IF found THEN "present" ELSE "missing"]
        /\ IF found THEN RunCmd(ds_seg_cmd, "ds_train", TRUE)
           ELSE /\ pc' = "ds_train"
                /\ UNCHANGED <<cont, caught, calls, exit, stdout>>
    /\ UNCHANGED <<prog, args, listing, platform, imgDir, cameras_text,
                   metadata, fs, written, lastWrite>>

\* DS_Train that passes --use_masks only when the mask script exited 0
DS_TrainMutMaskAware ==
    /\ pc = "ds_train"
    /\ RunCmd(IF /\ calls # <<>>
                 /\ calls[Len(calls)].cmd = ds_seg_cmd
                 /\ calls[Len(calls)].rc = 0
              THEN ds_train_cmd
              ELSE [ds_train_cmd EXCEPT !.flags = @ \ {"--use_masks"}],
              "ds_render", FALSE)
    /\ UNCHANGED <<prog, args, listing, platform, imgDir, cameras_text,
                   metadata, fs, written, env, lastWrite>>

\* Lines 158-165
DS_Train ==
    /\ pc = "ds_train"
    /\ RunCmd(ds_train_cmd, "ds_render", FALSE)
    /\ UNCHANGED <<prog, args, listing, platform, imgDir, cameras_text,
                   metadata, fs, written, env, lastWrite>>

\* Lines 167-173
DS_Render ==
    /\ pc = "ds_render"
    /\ RunCmd(ds_render_cmd, "ds_viewer", FALSE)
    /\ UNCHANGED <<prog, args, listing, platform, imgDir, cameras_text,
                   metadata, fs, written, env, lastWrite>>

\* Lines 175-196: the viewer page is written and main returns.
DS_Viewer ==
    /\ pc = "ds_viewer"
    /\ fs' = [fs EXCEPT !.viewer = TRUE]
    /\ written' = written \cup {"viewer/index.html"}
    /\ stdout' = Append(stdout, "Pipeline complete")
    /\ Finish
    /\ UNCHANGED <<prog, args, listing, platform, cont, caught, imgDir,
                   cameras_text, metadata, env, calls, lastWrite>>

\* ------------------------------------------------------------------- runs
Next ==
    \/ RC_Metadata \/ RC_FindColmap \/ RC_Feature \/ RC_Match \/ RC_Mapper
    \/ RC_ImageCopy \/ RC_OpenSplat \/ RC_Finish
    \/ PM_Main
    \/ DS_Args \/ DS_FindTools \/ DS_Feature \/ DS_Match \/ DS_Mapper
    \/ DS_Scene \/ DS_Seg \/ DS_Train \/ DS_Render \/ DS_Viewer
    \/ ProcExit

Spec == Init /\ [][Next]_vars

\* a step of the script itself: any step but the exit of a process
ScriptStep == pc # "wait" /\ Next

\* the runs over the smaller directories
InitLive ==
    InitOver(DirsOf(MaxLiveImages, {"asc"}), DirsOf(MaxLiveImages, {"asc"}))

\* The runs in which the interpreter keeps executing the script and every
\* external process that was started exits.
SpecLive ==
    InitLive /\ [][Next]_vars /\ WF_vars(ScriptStep) /\ WF_vars(ProcExit)

\* ---------------------------------------------------------- library calls
\* prepare_metadata used as a module: a caller calls extract_metadata and the
\* prior writer in any order, any number of times, on one output directory.

\* the lists extract_metadata can return
ReturnedLists ==
    { extract_metadata(d, NoCameras).image_metadata :
        d \in { e \in WriterDirs : ~extract_metadata(e, NoCameras).raised } }

\* what extract_metadata leaves in cameras_text, over the directories; a
\* call that raises before line 47 leaves the value it found
ExtractedCameras ==
    { extract_metadata(d, NoCameras).cameras_text : d \in WriterDirs }

InitWriter ==
    /\ prog = "library"
    /\ args = [use_metadata |-> FALSE, use_gpu |-> FALSE, argv_ok |-> TRUE,
               images |-> "imgsA"]
    /\ pc = "lib"
    /\ cont = ""
    /\ caught = FALSE
    /\ imgDir = <<>>
    /\ listing = <<>>
    /\ platform = "windows"
    /\ cameras_text = NoCameras
    /\ metadata = <<>>
    /\ fs = [prior |-> NoPrior, images |-> "absent", scene_colmap |-> "absent",
             sparse |-> FALSE, viewer |-> FALSE]
    /\ written = {}
    /\ env = [colmap |-> "unknown", trainer |-> "unknown", seg |-> "unknown"]
    /\ calls = <<>>
    /\ exit = Running
    /\ stdout = <<>>
    /\ lastWrite = NoWrite

\* extract_metadata(images_path) on some directory: cameras_text is set even
\* when the second pass raises.
W_Extract ==
    /\ pc = "lib"
    /\ \E c \in ExtractedCameras :
        cameras_text' = IF c.set THEN c ELSE cameras_text
    /\ UNCHANGED <<prog, args, listing, platform, pc, cont, caught, imgDir,
                   metadata, fs, written, env, calls, exit, stdout, lastWrite>>

\* write_colmap_format(m, output_dir) followed, unless it raised, by
\* write_colmap_ini(output_dir, image_path), as both callers do
\* (prepare_metadata.py 150-151, run_colmap.py 35-36).
W_Write ==
    /\ pc = "lib"
    /\ \E m \in ReturnedLists, image_path \in ImagePaths :
        LET r == write_colmap_format(m, fs.prior, cameras_text)
        IN  /\ fs' = [fs EXCEPT
                        !.prior = IF r.raised THEN r.dir
                                  ELSE write_colmap_ini(r.dir, image_path).dir]
            /\ lastWrite' =
                 [called |-> TRUE, ok |-> ~r.raised, metadata |-> m,
                  image_path |-> image_path, cameras_text |-> cameras_text,
                  repeat |-> /\ lastWrite.ok
                             /\ ~r.raised
                             /\ lastWrite.metadata = m
                             /\ lastWrite.image_path = image_path
                             /\ lastWrite.cameras_text = cameras_text]
    /\ written' = written \cup (IF cameras_text.set THEN PriorFiles
                                ELSE {"cameras.txt"})
    /\ UNCHANGED <<prog, args, listing, platform, pc, cont, caught, imgDir,
                   cameras_text, metadata, env, calls, exit, stdout>>

NextWriter == W_Extract \/ W_Write

SpecWriter == InitWriter /\ [][NextWriter]_vars

\* ------------------------------------------------------------- discovery
\* The readers over directories whose file names vary in case, on each
\* operating system.
InitDiscovery ==
    /\ prog = "library"
    /\ args = [use_metadata |-> FALSE, use_gpu |-> FALSE, argv_ok |-> TRUE,
               images |-> "imgsA"]
    /\ pc = "lib"
    /\ cont = ""
    /\ caught = FALSE
    /\ listing \in Listings
    /\ platform \in Platforms
    /\ imgDir = <<>>
    /\ cameras_text = NoCameras
    /\ metadata = <<>>
    /\ fs = [prior |-> NoPrior, images |-> "absent", scene_colmap |-> "absent",
             sparse |-> FALSE, viewer |-> FALSE]
    /\ written = {}
    /\ env = [colmap |-> "unknown", trainer |-> "unknown", seg |-> "unknown"]
    /\ calls = <<>>
    /\ exit = Running
    /\ stdout = <<>>
    /\ lastWrite = NoWrite

\* extract_metadata(images_path) on the listed directory
D_Extract ==
    /\ pc = "lib"
    /\ imgDir' = GlobView(listing, platform, 1, <<>>)
    /\ \E r \in {extract_metadata(imgDir', cameras_text)} :
           /\ cameras_text' = r.cameras_text
           /\ metadata' = r.image_metadata
           /\ IF r.raised THEN Die("Traceback", NoCmd)
              ELSE pc' = "extracted" /\ UNCHANGED exit
    /\ UNCHANGED <<prog, args, listing, platform, cont, caught, fs, written,
                   env, calls, stdout, lastWrite>>

\* pick_json(images) of run_colmap_dronesplat.py on the listed directory
D_PickJson ==
    /\ pc = "lib"
    /\ IF pick_json(listing, platform).raised
       THEN Die("FileNotFoundError", NoCmd)
       ELSE pc' = "picked" /\ UNCHANGED exit
    /\ UNCHANGED <<prog, args, listing, platform, cont, caught, imgDir,
                   cameras_text, metadata, fs, written, env, calls, stdout,
                   lastWrite>>

NextDiscovery == D_Extract \/ D_PickJson

SpecDiscovery == InitDiscovery /\ [][NextDiscovery]_vars

\* ----------------------------------------------------------- definitions
\* for the properties

Terminated == pc \in {"done", "aborted"}

Sequencers == {"run_colmap", "dronesplat"}

\* the stages whose failure ends the run
RequiredStages == {"extraction", "matching", "mapping", "training", "export"}

\* the positions in calls of the processes of a stage
CallsOf(stage) == { i \in 1..Len(calls) : StageOf(calls[i].cmd) = stage }

Failed(i) == calls[i].exited /\ calls[i].rc # 0

Succeeded(i) == calls[i].exited /\ calls[i].rc = 0

\* extraction, matching, mapping, training in the order of the pipeline
StageRank(stage) ==
    CASE stage = "extraction" -> 1
      [] stage = "matching" -> 2
      [] stage = "mapping" -> 3
      [] stage = "training" -> 4
      [] OTHER -> 0

\* ------------------------------------------------------------------- C1
\* C1: in a sequencer run, a required stage (extraction, matching, mapping,
\* training, export) that exited with a non-zero status is the last process
\* the run started, and the run is aborted: the stage is not started again
\* and no later stage (no training after a failed mapping) is started.
C1_FailedStageAborts ==
    prog \in Sequencers =>
        \A i \in 1..Len(calls) :
            (Failed(i) /\ StageOf(calls[i].cmd) \in RequiredStages) =>
                /\ i = Len(calls)
                /\ pc = "aborted"
                /\ exit.code # 0

\* a mapping stage failed after extraction and matching ran
C1_Witness ==
    /\ prog \in Sequencers
    /\ Len(calls) = 3
    /\ StageOf(calls[3].cmd) = "mapping"
    /\ Failed(3)
    /\ pc = "aborted"

\* ------------------------------------------------------------------- C2
\* C2: the processes of extraction, matching, mapping and training start in
\* that order; whenever one of them has started, the stage before it has a
\* process that exited with status 0; and at most one external process, the
\* one started last, has not exited.
C2_TotalOrder ==
    prog \in Sequencers =>
        /\ \A i, j \in 1..Len(calls) :
              (i < j /\ StageRank(StageOf(calls[i].cmd)) > 0
                     /\ StageRank(StageOf(calls[j].cmd)) > 0) =>
                  StageRank(StageOf(calls[i].cmd))
                      < StageRank(StageOf(calls[j].cmd))
        /\ \A j \in 1..Len(calls) :
              StageRank(StageOf(calls[j].cmd)) > 1 =>
                  \E i \in 1..(j - 1) :
                      /\ StageRank(StageOf(calls[i].cmd))
                             = StageRank(StageOf(calls[j].cmd)) - 1
                      /\ Succeeded(i)
        /\ \A i \in 1..Len(calls) : ~calls[i].exited => i = Len(calls)
        /\ (\E i \in 1..Len(calls) : ~calls[i].exited) <=> pc = "wait"

\* the training process runs, after the three stages before it
C2_Witness ==
    /\ prog \in Sequencers
    /\ pc = "wait"
    /\ StageOf(calls[Len(calls)].cmd) = "training"
    /\ CallsOf("extraction") # {}
    /\ CallsOf("matching") # {}
    /\ CallsOf("mapping") # {}

\* ------------------------------------------------------------------- C3
\* C3: when the COLMAP executable does not exist, the sequencer has started
\* no stage and has written no file under the output directory.
C3_MissingExecutableWritesNothing ==
    (prog \in Sequencers /\ env.colmap = "missing") =>
        /\ calls = <<>>
        /\ written = {}

\* ------------------------------------------------------------------- C4
\* C4 as stated: in both sequencers a run that found the trainer missing
\* ends in Done with status 0 and without a training process.
C4_TrainerOptionalEverywhere ==
    (prog \in Sequencers /\ env.trainer = "missing") =>
        /\ pc = "done"
        /\ exit.code = 0
        /\ CallsOf("training") = {}

\* C4 amended: in run_colmap.py a missing OpenSplat ends the run in Done with
\* status 0, after extraction, matching and mapping exited 0 and the image
\* copy step ran, with "OpenSplat not found" printed and no training process;
\* in run_colmap_dronesplat.py a missing train.py aborts the run with a
\* non-zero status before any stage.
C4_TrainerOptionalInRunColmap ==
    env.trainer = "missing" =>
        /\ CallsOf("training") = {}
        /\ prog = "run_colmap" =>
              /\ pc = "done"
              /\ exit.code = 0
              /\ Len(calls) = 3
              /\ \A i \in 1..3 : Succeeded(i) /\ StageRank(StageOf(calls[i].cmd)) = i
              /\ fs.images # "absent"
              /\ stdout[Len(stdout)] = "OpenSplat not found"
        /\ prog = "dronesplat" =>
              /\ pc = "aborted"
              /\ exit.code # 0
              /\ calls = <<>>

\* run_colmap.py reached Done without OpenSplat
C4_Witness ==
    /\ prog = "run_colmap"
    /\ env.trainer = "missing"
    /\ pc = "done"
    /\ Len(calls) = 3

\* ------------------------------------------------------------------- C5
\* the mapper processes started so far
MapperCalls == CallsOf("mapping")

Seeded(cmd) ==
    {"--Mapper.init_existing_model=1", "--input_path=sparse_init"}
        \subseteq cmd.flags

\* C5 as stated: the mapper carries the seeding flags exactly when the prior
\* directory exists in the output directory.
C5_SeededIffPriorExists ==
    prog \in Sequencers =>
        \A i \in MapperCalls : Seeded(calls[i].cmd) <=> fs.prior.exists

\* C5 amended: run_colmap.py passes the seeding flags exactly when
\* --use_metadata is given and <output>/sparse_init exists when the mapper
\* command is built, whether this run or an earlier one wrote it; in every
\* other case, prior files without --use_metadata and every run of
\* run_colmap_dronesplat.py included, the mapper gets its base arguments only.
C5_SeededIffFlagAndPrior ==
    \A i \in MapperCalls :
        IF prog = "run_colmap" /\ args.use_metadata /\ fs.prior.exists
        THEN calls[i].cmd.flags = MapperBaseFlags \cup MapperPriorFlags
        ELSE /\ calls[i].cmd.flags \cap MapperPriorFlags = {}
             /\ prog = "run_colmap" => calls[i].cmd.flags = MapperBaseFlags

\* the mapper seeded from the files an earlier run left, this run's telemetry
\* being empty
C5_Witness ==
    /\ prog = "run_colmap"
    /\ args.use_metadata
    /\ metadata = <<>>
    /\ fs.prior.exists
    /\ \E i \in MapperCalls : Seeded(calls[i].cmd)

\* ------------------------------------------------------------------- C6
\* the images of a directory whose sidecar exists
NumWithSidecar(dir) == Cardinality({ k \in 1..Len(dir) : dir[k].doc.exists })

\* Every sidecar that exists is valid JSON with numbers in its numeric fields.
AllSidecarsValid(dir) ==
    \A k \in 1..Len(dir) :
        dir[k].doc.exists =>
            /\ dir[k].doc.json
            /\ \A f \in {"PixelXDimension", "PixelYDimension", "FocalLength",
                         "Latitude", "Longitude", "AbsoluteAltitude",
                         "Yaw", "Pitch", "Roll"} :
                   dir[k].doc[f].t \in {"absent", "num", "numstr", "fracstr"}
                   /\ (dir[k].doc[f].t = "fracstr" => f = "FocalLength")

\* the data lines of the image list: what follows the three comment lines
PoseBody(file) == SubSeq(file.lines, 4, Len(file.lines))

\* the data lines are n pairs of a pose line and a blank line
IsPosePairs(body, n) ==
    /\ Len(body) = 2 * n
    /\ \A k \in 1..n : body[2 * k - 1].kind = "pose" /\ body[2 * k].kind = "blank"

\* the scripts that read the telemetry
ReadsTelemetry ==
    prog = "prepare_metadata" \/ (prog = "run_colmap" /\ args.use_metadata)

\* the telemetry block of the run is over and did not raise
MetaRan ==
    \/ prog = "prepare_metadata" /\ pc = "done"
    \/ /\ prog = "run_colmap" /\ args.use_metadata
       /\ pc # "rc_metadata" /\ exit.msg # "Traceback"

\* C6: the image list a run writes holds one pose line + blank line pair for
\* each image that has a sidecar, not one for each image; a run over a
\* directory without any sidecar writes no pose entry; and a run in which
\* every sidecar that exists is valid does not fail, however many images lack
\* a sidecar.
C6_PosePairsCountSidecars ==
    ReadsTelemetry =>
        /\ "images.txt" \in written =>
              IsPosePairs(PoseBody(fs.prior.images), NumWithSidecar(imgDir))
        /\ (MetaRan /\ NumWithSidecar(imgDir) = 0) => "images.txt" \notin written
        /\ AllSidecarsValid(imgDir) => exit.msg # "Traceback"

\* three images, two sidecars, two pairs written
C6_Witness ==
    /\ prog = "prepare_metadata"
    /\ pc = "done"
    /\ Len(imgDir) = 3
    /\ NumWithSidecar(imgDir) = 2
    /\ "images.txt" \in written
    /\ Len(PoseBody(fs.prior.images)) = 4

\* ------------------------------------------------------------------- C7
\* the sidecar of the first image that has one
FirstSidecar(dir) ==
    dir[CHOOSE k \in 1..Len(dir) :
            dir[k].doc.exists /\ \A j \in 1..(k - 1) : ~dir[j].doc.exists].doc

\* the value of a dimension field of a sidecar, or the default without it
DimOf(v, default) == IF v.t = "absent" THEN default ELSE v.a \div v.b

\* the camera list holds exactly one data line, with this width and height
OneCameraLine(file, width, height) ==
    /\ file.exists
    /\ Len(file.lines) = 4
    /\ \A k \in 1..3 : file.lines[k].kind = "comment"
    /\ file.lines[4].kind = "camera"
    /\ file.lines[4].nums[2] = width
    /\ file.lines[4].nums[3] = height

\* C7 as stated: after the telemetry block the camera list holds one data
\* line with the first sidecar's dimensions, or 4056 x 3040 for an empty set.
C7_CameraListAlways ==
    MetaRan =>
        IF NumWithSidecar(imgDir) = 0
        THEN OneCameraLine(fs.prior.cameras, 4056, 3040)
        ELSE OneCameraLine(fs.prior.cameras,
                           DimOf(FirstSidecar(imgDir).PixelXDimension, 4056),
                           DimOf(FirstSidecar(imgDir).PixelYDimension, 3040))

\* C7 amended: for a non-empty telemetry set the run writes a camera list
\* with exactly one data line whose WIDTH and HEIGHT are those of the
\* first-discovered sidecar (4056 and 3040 where it lacks the field); for the
\* empty set the run writes no camera list and leaves the output directory
\* as it was, the 4056 x 3040 default camera staying in memory only.
C7_CameraListWhenTelemetry ==
    MetaRan =>
        IF NumWithSidecar(imgDir) = 0
        THEN /\ written = {}
             /\ fs.prior \in {NoPrior, OldPrior}
             /\ cameras_text.set
             /\ cameras_text.line.nums[2] = 4056
             /\ cameras_text.line.nums[3] = 3040
        ELSE /\ "cameras.txt" \in written
             /\ OneCameraLine(fs.prior.cameras,
                              DimOf(FirstSidecar(imgDir).PixelXDimension, 4056),
                              DimOf(FirstSidecar(imgDir).PixelYDimension, 3040))

\* two records whose sidecars differ in width; the first one's is written
C7_Witness ==
    /\ prog = "prepare_metadata"
    /\ pc = "done"
    /\ Len(imgDir) >= 2
    /\ imgDir[1].doc = DocFull
    /\ imgDir[2].doc = DocPose
    /\ fs.prior.cameras.lines[4].nums[2] = 4000

\* ------------------------------------------------------------------- C8
\* what the last writer call writes into an output directory that is empty:
\* write_colmap_format, then write_colmap_ini
FreshWrite ==
    write_colmap_ini(
        write_colmap_format(lastWrite.metadata, NoPrior,
                            lastWrite.cameras_text).dir,
        lastWrite.image_path).dir

\* after a writer call the three files hold what that call writes into an
\* empty directory: nothing of what was there before
NoMerging == lastWrite.ok => fs.prior = FreshWrite

\* a writer call with the pose sequence, the image path and the cameras_text
\* of the call before it leaves the three files as they were
SameCallSameFiles ==
    (/\ lastWrite.ok /\ lastWrite'.ok
     /\ lastWrite'.metadata = lastWrite.metadata
     /\ lastWrite'.image_path = lastWrite.image_path
     /\ lastWrite'.cameras_text = lastWrite.cameras_text)
    => fs'.prior = fs.prior

\* C8 as stated: a writer call with the (non-empty) pose sequence and the
\* image path of the call before it, on the same output directory, leaves the
\* camera list, the image list and the configuration stub as they were.
C8_SameArgumentsSameFiles ==
    [][(/\ lastWrite.ok /\ lastWrite'.ok
        /\ lastWrite.metadata # <<>>
        /\ lastWrite'.metadata = lastWrite.metadata
        /\ lastWrite'.image_path = lastWrite.image_path)
       => fs'.prior = fs.prior]_vars

\* C8 amended: the camera line is an input of the writer too, the
\* module-level cameras_text the last extract_metadata left. Two calls with
\* the same pose sequence, output directory, image path and cameras_text leave
\* the three files byte-identical, and after any call the files hold nothing
\* of an earlier call.
C8_WriterIdempotent == []NoMerging /\ [][SameCallSameFiles]_vars

\* a second call with the inputs of the first, two poses each
C8_Witness ==
    /\ lastWrite.repeat
    /\ Len(lastWrite.metadata) = 2
    /\ Len(fs.prior.images.lines) = 7

\* ------------------------------------------------------------------- C9
PoseFields ==
    {"Latitude", "Longitude", "AbsoluteAltitude", "Yaw", "Pitch", "Roll"}

NotJson(doc) == doc.exists /\ ~doc.json

\* float() cannot parse a position or orientation field
PoseUnparseable(doc) ==
    doc.exists /\ doc.json /\ \E f \in PoseFields : doc[f].t \in {"badstr", "fracstr"}

\* the numeric-parsing rule cannot parse FocalLength
FocalUnparseable(doc) ==
    /\ doc.exists /\ doc.json
    /\ \/ doc.FocalLength.t = "badstr"
       \/ doc.FocalLength.t = "fracstr" /\ doc.FocalLength.b = 0

HasBadSidecar(dir) ==
    \E k \in 1..Len(dir) :
        NotJson(dir[k].doc) \/ PoseUnparseable(dir[k].doc)
            \/ FocalUnparseable(dir[k].doc)

\* C9 as stated: with a sidecar that is not JSON or has an unparseable
\* numeric field, run_colmap.py and prepare_metadata.py start no stage,
\* produce no record and do not complete.
C9_BadSidecarAlwaysFatal ==
    (prog \in {"run_colmap", "prepare_metadata"} /\ HasBadSidecar(imgDir)) =>
        /\ calls = <<>>
        /\ metadata = <<>>
        /\ pc # "done"

\* the sidecars the telemetry reader cannot get past: any that is not JSON
\* or has an unparseable position or orientation field, and the first one
\* when its FocalLength is unparseable
HasFatalSidecar(dir) ==
    \/ \E k \in 1..Len(dir) : NotJson(dir[k].doc) \/ PoseUnparseable(dir[k].doc)
    \/ NumWithSidecar(dir) > 0 /\ FocalUnparseable(FirstSidecar(dir))

\* C9 amended: where the telemetry reader runs (prepare_metadata.py, and
\* run_colmap.py with --use_metadata), a sidecar of an image that is not valid
\* JSON or whose Latitude, Longitude, AbsoluteAltitude, Yaw, Pitch or Roll
\* float() cannot parse, and a first-discovered sidecar whose FocalLength the
\* numeric-parsing rule cannot parse, is fatal: the run aborts with a
\* non-zero status before any stage, with no record and no prior file.
\* run_colmap_dronesplat.py aborts before any stage when the first sidecar is
\* not valid JSON. (Without --use_metadata run_colmap.py reads no sidecar,
\* and the FocalLength of a later sidecar is never read.)
C9_BadSidecarFatalWhereRead ==
    /\ (ReadsTelemetry /\ HasFatalSidecar(imgDir)) =>
          /\ calls = <<>>
          /\ metadata = <<>>
          /\ written = {}
          /\ pc # StartOf(prog) => (pc = "aborted" /\ exit.code # 0)
    /\ (/\ prog = "dronesplat"
        /\ NumWithSidecar(imgDir) > 0
        /\ NotJson(FirstSidecar(imgDir))) =>
          /\ calls = <<>>
          /\ pc # "done"

\* run_colmap.py --use_metadata aborted on a second sidecar that is not JSON,
\* the first one being readable
C9_Witness ==
    /\ prog = "run_colmap"
    /\ args.use_metadata
    /\ Len(imgDir) = 2
    /\ imgDir[1].doc = DocFull
    /\ imgDir[2].doc = DocBadJson
    /\ pc = "aborted"
    /\ metadata = <<>>

\* ------------------------------------------------------------------ C10
CopySteps == {"rc_copy", "ds_scene"}

\* C10: the image-copy destination changes only in the ImageCopy step and
\* only from absent to copied; a destination that exists is left as it is;
\* in both cases the run goes on to the next step.
C10_ImageCopyGuard ==
    [][/\ fs'.images # fs.images =>
            (pc \in CopySteps /\ fs.images = "absent" /\ fs'.images = "copied")
       /\ pc \in CopySteps =>
            /\ fs.images # "absent" => fs'.images = fs.images
            /\ fs'.images # "absent"
            /\ pc' = (IF prog = "run_colmap" THEN "rc_opensplat" ELSE "ds_seg")
            /\ exit' = exit]_vars

\* the step ran over a destination that existed, which is as it was
C10_Witness ==
    /\ prog \in Sequencers
    /\ pc \in {"rc_opensplat", "ds_seg"}
    /\ fs.images = "old"

\* ------------------------------------------------------------------ C11
\* C11: a sequencer run ends with status 0 only when every process of a
\* required stage it started exited with status 0; and when a process of a
\* required stage exited non-zero the run has ended with a non-zero status
\* and an error message that carries the command line of that process, the
\* one that failed, and of no other.
C11_ExitStatusNamesFailedCommand ==
    prog \in Sequencers =>
        /\ exit.code = 0 =>
              \A i \in 1..Len(calls) :
                  StageOf(calls[i].cmd) \in RequiredStages => Succeeded(i)
        /\ \A i \in 1..Len(calls) :
              (Failed(i) /\ StageOf(calls[i].cmd) \in RequiredStages) =>
                  /\ exit.code \notin {0, -1}
                  /\ exit.msg \in {"Command failed with code",
                                   "CalledProcessError"}
                  /\ exit.cmd = calls[i].cmd
                  /\ \A j \in 1..Len(calls) :
                        calls[j].cmd = exit.cmd => j = i

\* the matcher failed after the extractor exited 0: the message names the
\* matcher's command line
C11_Witness ==
    /\ prog \in Sequencers
    /\ Len(calls) = 2
    /\ Succeeded(1)
    /\ Failed(2)
    /\ StageOf(calls[2].cmd) = "matching"
    /\ exit.cmd = calls[2].cmd
    /\ exit.code = 1

\* ------------------------------------------------------------------ C12
\* the positions in calls of the mask script
MaskCalls == CallsOf("masks")

\* C12: in run_colmap_dronesplat.py a mask script that exits non-zero is
\* caught and logged and does not abort the run: the run goes on to the
\* training step and the training process is started after it; when the mask
\* script does not exist no mask process is started and the run goes on to
\* training the same way.
C12_MasksBestEffort ==
    prog = "dronesplat" =>
        /\ \A i \in MaskCalls :
              Failed(i) =>
                  /\ "seg_all_instances.py failed" \in
                         { stdout[k] : k \in 1..Len(stdout) }
                  /\ exit.cmd # calls[i].cmd
                  /\ \/ pc = "ds_train"
                     \/ /\ Len(calls) > i
                        /\ calls[i + 1].cmd = ds_train_cmd
        /\ env.seg = "missing" =>
              /\ MaskCalls = {}
              /\ \/ pc = "ds_train"
                 \/ Len(calls) >= 4 /\ calls[4].cmd = ds_train_cmd

\* training was started after the mask script had failed
C12_Witness ==
    /\ prog = "dronesplat"
    /\ Len(calls) = 5
    /\ StageOf(calls[4].cmd) = "masks"
    /\ Failed(4)
    /\ calls[5].cmd = ds_train_cmd

\* ------------------------------------------------------------------ C13
\* the position in the enumeration of the k-th image that has a sidecar
KthWithSidecar(dir, k) ==
    CHOOSE j \in 1..Len(dir) :
        /\ dir[j].doc.exists
        /\ Cardinality({ i \in 1..(j - 1) : dir[i].doc.exists }) = k - 1

\* the IMAGE_ID and the NAME of a pose line
ImageIdOf(line) == line.nums[1]

NameOf(line) == line.nums[13]

\* C13: the k-th record extract_metadata appended belongs to the k-th image
\* with a sidecar in the order glob enumerated the directory, whatever the
\* order of the names, and the image list holds it as the k-th pose line,
\* with IMAGE_ID k (1..n, consecutive) and that image's name.
C13_IndicesInDiscoveryOrder ==
    (ReadsTelemetry /\ "images.txt" \in written) =>
        LET body == PoseBody(fs.prior.images)
        IN  /\ Len(body) = 2 * Len(metadata)
            /\ \A k \in 1..Len(metadata) :
                  /\ metadata[k].image_name
                         = imgDir[KthWithSidecar(imgDir, k)].name
                  /\ ImageIdOf(body[2 * k - 1]) = k
                  /\ NameOf(body[2 * k - 1]) = metadata[k].image_name

\* three images enumerated in descending order of name, the second without
\* a sidecar: IMAGE_ID 1 goes to the name 3 and IMAGE_ID 2 to the name 1
C13_Witness ==
    /\ prog = "prepare_metadata"
    /\ pc = "done"
    /\ Len(imgDir) = 3
    /\ ~imgDir[2].doc.exists
    /\ Len(PoseBody(fs.prior.images)) = 4
    /\ ImageIdOf(PoseBody(fs.prior.images)[1]) = 1
    /\ NameOf(PoseBody(fs.prior.images)[1]) = 3
    /\ ImageIdOf(PoseBody(fs.prior.images)[3]) = 2
    /\ NameOf(PoseBody(fs.prior.images)[3]) = 1

\* ------------------------------------------------------------------ C14
\* the records extract_metadata returns for the directory with every
\* extension in upper case
UpperCaseRecords ==
    extract_metadata(
        GlobView([k \in 1..Len(listing) |->
                     [listing[k] EXCEPT !.ext = Upper(@), !.jext = Upper(@)]],
                 platform, 1, <<>>),
        NoCameras).image_metadata

\* C14: extract_metadata returns for a directory the records it returns for
\* the same directory with the image and sidecar extensions in upper case,
\* and pick_json finds a sidecar whenever the directory holds one.
C14_ExtensionCaseTolerated ==
    /\ pc = "extracted" => metadata = UpperCaseRecords
    /\ (exit.msg = "FileNotFoundError") =>
          \A k \in 1..Len(listing) : ~listing[k].doc.exists

\* ------------------------------------------------------------------ C15
\* the camera the per-field defaults give: what lines 21-37 compute for a
\* sample that lacks every camera field
PerFieldDefaultCamera == CameraFromSample(DocEmpty).v

\* C15: a run over an empty telemetry set does not fail and leaves the
\* default camera in cameras_text, and that camera is the one the per-field
\* defaults give: 4056 x 3040, focal 3700/1000, principal point (2028, 1520),
\* k1 0.123224.
C15_EmptySetDefaultCamera ==
    (ReadsTelemetry /\ NumWithSidecar(imgDir) = 0 /\ pc # StartOf(prog)) =>
        /\ exit.msg # "Traceback"
        /\ cameras_text.set
        /\ cameras_text.line = PerFieldDefaultCamera
        /\ cameras_text.line
              = CameraLine(4056, 3040, Frac(3700, 1000), Frac(4056, 2),
                           Frac(3040, 2), Frac(123224, 1000000))

\* ------------------------------------------------------------------ C16
\* the sidecar of the image the k-th record belongs to
SidecarOfRecord(k) == imgDir[KthWithSidecar(imgDir, k)].doc

\* the number a sidecar field holds, or the default without the field
FieldValue(v, default) == IF v.t = "absent" THEN default ELSE Frac(v.a, v.b)

\* QW QX QY QZ and CAMERA_ID of a pose line
RotationOf(line) == SubSeq(line.nums, 2, 5)

CameraIdOf(line) == line.nums[12]

\* C16: every pose line written carries the rotation 1 0 0 0 and CAMERA_ID
\* 1 whatever the yaw, pitch and roll of its record, and every record the
\* reader returned holds the yaw, pitch and roll parsed from the sidecar of
\* its own image (0 for a field the sidecar lacks).
C16_IdentityRotationOrientationKept ==
    /\ (ReadsTelemetry /\ "images.txt" \in written) =>
          \A k \in 1..Len(metadata) :
              /\ RotationOf(PoseBody(fs.prior.images)[2 * k - 1]) = <<1, 0, 0, 0>>
              /\ CameraIdOf(PoseBody(fs.prior.images)[2 * k - 1]) = 1
    /\ MetaRan =>
          \A k \in 1..Len(metadata) :
              /\ metadata[k].yaw = FieldValue(SidecarOfRecord(k).Yaw, FracInt(0))
              /\ metadata[k].pitch
                    = FieldValue(SidecarOfRecord(k).Pitch, FracInt(0))
              /\ metadata[k].roll = FieldValue(SidecarOfRecord(k).Roll, FracInt(0))

\* a record with yaw 90, pitch -45, roll 10 and one without orientation, both
\* written with the identity rotation
C16_Witness ==
    /\ prog = "prepare_metadata"
    /\ pc = "done"
    /\ Len(metadata) = 2
    /\ metadata[1].yaw = FracInt(90)
    /\ metadata[1].pitch = FracInt(-45)
    /\ metadata[1].roll = FracInt(10)
    /\ metadata[2].yaw = FracInt(0)
    /\ RotationOf(PoseBody(fs.prior.images)[1]) = <<1, 0, 0, 0>>
    /\ RotationOf(PoseBody(fs.prior.images)[3]) = <<1, 0, 0, 0>>

\* ------------------------------------------------------------------ C17
\* TX, TY, TZ of a pose line, each as numerator and denominator
TranslationOf(line) == SubSeq(line.nums, 6, 11)

\* longitude * 111000, latitude * 111000 and the altitude of a sidecar
ExpectedTranslation(doc) ==
    LET lon == FieldValue(doc.Longitude, FracInt(0))
        lat == FieldValue(doc.Latitude, FracInt(0))
        alt == FieldValue(doc.AbsoluteAltitude, FracInt(0))
        tx == Frac(lon.n * 111000, lon.d)
        ty == Frac(lat.n * 111000, lat.d)
    IN  <<tx.n, tx.d, ty.n, ty.d, alt.n, alt.d>>

\* C17: the pose line of every record carries (TX, TY, TZ) = (longitude *
\* 111000, latitude * 111000, altitude) of the sidecar of its image:
\* longitude goes to X, latitude to Y, the altitude is not scaled.
C17_TranslationFromGps ==
    (ReadsTelemetry /\ "images.txt" \in written) =>
        \A k \in 1..Len(metadata) :
            TranslationOf(PoseBody(fs.prior.images)[2 * k - 1])
                = ExpectedTranslation(SidecarOfRecord(k))

\* latitude 37, longitude -122, altitude 50 written as
\* (-13542000, 4107000, 50)
C17_Witness ==
    /\ ReadsTelemetry
    /\ "images.txt" \in written
    /\ imgDir[1].doc = DocFull
    /\ TranslationOf(PoseBody(fs.prior.images)[1])
          = <<-13542000, 1, 4107000, 1, 50, 1>>

\* ------------------------------------------------------------------ C20
\* the focal length the numeric-parsing rule reads from the FocalLength of
\* the first-discovered sidecar, 3700/1000 without the field
FirstFocal(dir) == FieldValue(FirstSidecar(dir).FocalLength, Frac(3700, 1000))

\* C20: every record extract_metadata returned carries the focal length
\* parsed from the FocalLength of the first-discovered sidecar (3.7 when that
\* sidecar lacks the field), whatever the FocalLength of the record's own
\* sidecar; all records of a run carry the same focal_length.
C20_FocalFromFirstSidecar ==
    MetaRan =>
        /\ \A k \in 1..Len(metadata) :
              metadata[k].focal_length = FirstFocal(imgDir)
        /\ \A j, k \in 1..Len(metadata) :
              metadata[j].focal_length = metadata[k].focal_length

\* the second record carries 3.7, the focal length of the first sidecar,
\* while its own sidecar says 4
C20_Witness ==
    /\ MetaRan
    /\ Len(metadata) = 2
    /\ SidecarOfRecord(1).FocalLength = FracStr(3700, 1000)
    /\ SidecarOfRecord(2).FocalLength = Num(4, 1)
    /\ metadata[2].focal_length = Frac(37, 10)

\* ------------------------------------------------------------------ C18
\* a file the run wrote is in the output directory
StillThere(f) ==
    CASE f = "cameras.txt" -> fs.prior.cameras.exists
      [] f = "images.txt" -> fs.prior.images.exists
      [] f = "colmap.ini" -> fs.prior.ini.exists
      [] OTHER -> fs.viewer

\* the step in which an uncaught stage failure ends the run changes nothing
\* under the output directory
AbortKeepsFiles ==
    (pc = "wait" /\ pc' = "aborted") => (fs' = fs /\ written' = written)

\* C18: the step in which a failed required stage aborts the run leaves the
\* output directory exactly as it was, and in every aborted run the files
\* the run wrote before (prior files, sparse directory, copied images) are
\* still in place: nothing is deleted, nothing is rewritten.
C18_NoRollback ==
    /\ [](pc = "aborted" => \A f \in written : StillThere(f))
    /\ [][AbortKeepsFiles]_vars

\* OpenSplat failed after the run wrote the prior files, made the sparse
\* directory and copied the images: all are still there
C18_Witness ==
    /\ prog = "run_colmap"
    /\ pc = "aborted"
    /\ Len(calls) = 4
    /\ Failed(4)
    /\ PriorFiles \subseteq written
    /\ fs.prior.images.exists
    /\ fs.sparse
    /\ fs.images = "copied"

\* ------------------------------------------------------------------ C19
\* while a process runs, the only step of the run is the exit of that
\* process: no timeout, no cancellation, no other stage started
OnlyExitEndsWait ==
    pc = "wait" =>
        /\ ~calls[Len(calls)].exited
        /\ Len(calls') = Len(calls)
        /\ calls'[Len(calls)].exited
        /\ pc' # "wait"

\* C19: when every external process that was started exits, every run
\* reaches Done or aborted; and a run that waits for a process leaves that
\* stage only by the exit of the process, so with a process that never exits
\* it stays there, neither advancing nor terminating.
C19_Termination == <>Terminated /\ [][OnlyExitEndsWait]_vars

\* a run of run_colmap_dronesplat.py that went through all six processes
\* and reached Done
C19_Witness ==
    /\ prog = "dronesplat"
    /\ pc = "done"
    /\ Len(calls) = 6
    /\ \A i \in 1..6 : calls[i].exited

\* ------------------------------------------------------------------ C21
\* the processes of train.py started so far
TrainCalls == { i \in 1..Len(calls) : calls[i].cmd.sub = "train.py" }

\* C21: in run_colmap_dronesplat.py every training process is started with
\* the same command line, "--use_masks" included, whether the mask script
\* exited 0, exited non-zero or was not there: the mask step changes nothing
\* in the training command.
C21_TrainingAlwaysUsesMasks ==
    prog = "dronesplat" =>
        \A i \in TrainCalls :
            /\ "--use_masks" \in calls[i].cmd.flags
            /\ calls[i].cmd.exe = "python"
            /\ calls[i].cmd.flags
                  = {"-s", "-m", "--scene=myscene", "--iter=7000", "--use_masks"}
            /\ env.seg \in {"present", "missing"}
            /\ env.seg = "missing" => MaskCalls = {}
            /\ env.seg = "present" =>
                  (MaskCalls = {i - 1} /\ calls[i - 1].exited)

\* training was started with --use_masks in a run that skipped the mask
\* script because it does not exist
C21_Witness ==
    /\ prog = "dronesplat"
    /\ env.seg = "missing"
    /\ MaskCalls = {}
    /\ TrainCalls = {4}
    /\ "--use_masks" \in calls[4].cmd.flags

====
